---- MODULE Spec2Model ----
(***************************************************************************)
(* ProjectZomboid - Remote Mod Watchdog (PZ-Remote_Mod_Watchdog.py).       *)
(*                                                                         *)
(* The parts of the program are modelled each with its own specification   *)
(* over the one set of variables:                                          *)
(*   SpecRestart  warn_and_restart: the countdown / eviction / stop state  *)
(*                machine of one restart attempt, command by command;      *)
(*   SpecDrift    are_mods_outdated and write_modInfo_timeUpdated_file;    *)
(*   SpecMain     check_mods_and_handle in consecutive runs of main;       *)
(*   SpecLock     main, check_pid and remove_pid of several runs of the    *)
(*                program interleaved at the granularity of their system   *)
(*                calls on the PID file;                                   *)
(*   SpecFetch    create_modInfo and fetch_workshop_details, request by    *)
(*                request (SpecFetchFair: the same with progress);         *)
(*   SpecRun      one run of main from the fetch to the end of             *)
(*                warn_and_restart.                                        *)
(***************************************************************************)
EXTENDS Integers, Sequences, FiniteSets, TLC

\* ------------------------------------------------------------------ bounds
MaxCountdown == 3       \* largest configured COUNTDOWN_MINUTES explored
MaxPlayers == 2         \* players that may be connected
MaxIds == 2             \* workshop ids that may be enabled
MaxTime == 2            \* largest time_updated explored
NumRuns == 2            \* runs of the program started on the host

\* ------------------------------------------------------ program constants
RESTART_TIMEOUT == 5    \* seconds before quit (default of the setting)
TICK_SECONDS == 60      \* asyncio.sleep(60) of the countdown
KICK_SETTLE == 2        \* asyncio.sleep(2) after kick_all_players
MAX_ATTEMPTS == 5       \* for attempt in range(5)
CAP_ERROR == 30         \* min(2 ** attempt, 30)
CAP_RATE_LIMIT == 60    \* min(2 ** attempt, 60)

VARIABLES
    \* ---- warn_and_restart (one restart attempt)
    wpc,                \* position inside warn_and_restart
    test_mode,          \* the test_mode argument
    COUNTDOWN_MINUTES,  \* the configured tick count
    players,            \* the local list `players` (last roster returned)
    minutes_left,       \* loop variable of the countdown
    playersGone,        \* the local flag _playersGone
    kickIdx,            \* position of kick_all_players in `players`
    log,                \* what the run did: console commands and sleeps
    \* ---- are_mods_outdated (drift detection)
    dpc,                \* "ready", "returned" or "crashed"
    modInfo,            \* the fresh mapping: id -> record of the fetch
    snapshot,           \* the file LOCAL_MODINFO_FILE
    json_data,          \* what the call read from the file
    outdated,           \* the local list `outdated`
    result,             \* the value are_mods_outdated returned
    write_error,        \* the exception write_modInfo_timeUpdated_file logged
    prev,               \* history: how the call before this one ended,
                        \*   when this call repeats it with the same mapping
    \* ---- main, check_pid, remove_pid (several runs on one host)
    pc,                 \* per run: its position in main / check_pid
    pidFile,            \* the file PID_FILE
    pid,                \* per run: the local `pid` read from PID_FILE
    fd_linked,          \* per run: PID_FILE is open for writing and still
                        \*   the file the path names
    effects,            \* per run: the kinds of side effect it has had
    sawLive,            \* per run: its /proc check found the PID alive
    iniExists,          \* the file LOCAL_SERVER_INI exists
    foreignAlive,       \* an unrelated process with the PID found in a
                        \*   left-over PID_FILE is running
    \* ---- create_modInfo, fetch_workshop_details
    fpc,                \* "idle", "loop", "request", "sleep" or "done"
    workshop_ids,       \* the enabled workshop ids, as listed in server.ini
    BATCH_SIZE,         \* the configured batch size
    remote,             \* the time_updated the Steam API has for each id
    batch_i,            \* loop variable i of create_modInfo: batch start
    attempt,            \* loop variable of the retry loop
    wait,               \* the local `wait` handed to time.sleep
    kind,               \* why the last request failed
    infos,              \* the mapping create_modInfo builds
    requests,           \* history: requests.get calls made for this batch
    fates               \* history: how each batch so far ended

restartVars == <<wpc, test_mode, COUNTDOWN_MINUTES, players, minutes_left,
                 playersGone, kickIdx, log>>

driftVars == <<dpc, modInfo, snapshot, json_data, outdated, result,
               write_error, prev>>

lockVars == <<pc, pidFile, pid, fd_linked, effects, sawLive, iniExists,
              foreignAlive>>

fetchVars == <<fpc, workshop_ids, BATCH_SIZE, remote, batch_i, attempt, wait,
               kind, infos, requests, fates>>

vars == <<restartVars, driftVars, lockVars, fetchVars>>

\* what the actions of one part leave alone
otherThanRestart == <<driftVars, lockVars, fetchVars>>
otherThanDrift == <<restartVars, lockVars, fetchVars>>
otherThanLock == <<restartVars, driftVars, fetchVars>>
otherThanFetch == <<restartVars, driftVars, lockVars>>

\* ---------------------------------------------------------------- helpers
Players == 1..MaxPlayers

RECURSIVE Perms(_)
\* every ordering of the set S, as sequences without repetition
Perms(S) ==
    IF S = {} THEN { <<>> }
    ELSE UNION { { <<x>> \o p : p \in Perms(S \ {x}) } : x \in S }

\* the rosters a "players" query can return: any connected players, in any
\* order of the response lines
Rosters == UNION { Perms(S) : S \in SUBSET Players }

\* One entry of the log.  op is the console command ("players", "servermsg",
\* "kickuser", "save", "quit") or "sleep"; msg tells the two broadcasts
\* apart; arg is the minutes / seconds / player / roster size; test is the
\* " (TEST)" suffix; ok is FALSE when rcon.command raised.
Event(op, msg, arg, test, ok) ==
    [op |-> op, msg |-> msg, arg |-> arg, test |-> test, ok |-> ok]

Sleep(seconds) == Event("sleep", "none", seconds, FALSE, TRUE)

\* send_rcon_message: the servermsg command it issues; the message gets the
\* " (TEST)" suffix in test mode; an exception of rcon.command is caught
\* and logged, so the caller continues either way.
send_rcon_message(msg, arg, tm, ok) == Event("servermsg", msg, arg, tm, ok)

\* WARNING_MESSAGE.format(minutes=m) and RESTART_MESSAGE.format(seconds=s)
WARNING_MESSAGE(m, tm, ok) == send_rcon_message("warning", m, tm, ok)
RESTART_MESSAGE(s, tm, ok) == send_rcon_message("restart", s, tm, ok)

\* get_connected_players: the "players" command; arg records the size of
\* the roster returned (0 when the command raised).
get_connected_players(roster, ok) ==
    Event("players", "none", Len(roster), FALSE, ok)

\* The body of the coroutine function saveAndQuit: save, settle, quit.
saveAndQuitBody ==
    << Event("save", "none", 0, FALSE, TRUE),
       Sleep(RESTART_TIMEOUT),
       Event("quit", "none", 0, FALSE, TRUE) >>

\* The three call sites write `saveAndQuit(rcon)` without `await`: calling a
\* coroutine function only builds the coroutine object, which is dropped at
\* once; its body never runs.  The log after the call is the log before it.
saveAndQuit(l) == l

\* ------------------------------------------------- mod records, snapshot
Ids == 1..MaxIds
Times == 0..MaxTime

\* One entry of the mapping fetch_workshop_details builds: the fields of
\* results[mod_id]; only name and time_updated are used afterwards.
ModRecord(t) ==
    [name |-> "title", tags |-> <<>>, time_created |-> 0, time_updated |-> t,
     num_children |-> 0, children |-> <<>>]

\* the mappings create_modInfo can return: any of the ids, any timestamps
FreshMappings ==
    UNION { { [id \in S |-> ModRecord(f[id])] : f \in [S -> Times] }
            : S \in SUBSET Ids }

\* an entry of the snapshot file: {"name": .., "time_updated": ..}
SnapshotEntry(n, t) == [name |-> n, time_updated |-> t]

\* The file LOCAL_MODINFO_FILE: state "ok" with the mapping it holds,
\* "missing", or "corrupt" (empty, cut short, not JSON).
File(st, d) == [state |-> st, data |-> d]
NoData == <<>>
SnapshotFiles ==
    { File("missing", NoData), File("corrupt", NoData) } \cup
    UNION { { File("ok", [id \in S |-> SnapshotEntry("title", f[id])])
              : f \in [S -> Times] } : S \in SUBSET Ids }

RECURSIVE SortedSeq(_)
\* the elements of a set of integers in ascending order
SortedSeq(S) ==
    IF S = {} THEN <<>>
    ELSE LET m == CHOOSE x \in S : \A y \in S : x <= y
         IN <<m>> \o SortedSeq(S \ {m})

\* the history record of a call: whether there was one, whether it returned
\* (rather than died in the write), what it returned, the write error it
\* logged, and whether it was made in test mode
Call(c, rt, rs, we, tm) ==
    [called |-> c, returned |-> rt, result |-> rs, write_error |-> we,
     test |-> tm]
NoPrev == Call(FALSE, FALSE, FALSE, "none", FALSE)

DriftIdle ==
    /\ dpc = "idle"
    /\ modInfo = NoData
    /\ snapshot = File("missing", NoData)
    /\ json_data = File("missing", NoData)
    /\ outdated = <<>>
    /\ result = FALSE
    /\ write_error = "none"
    /\ prev = NoPrev

Runs == 1..NumRuns
\* the PID of run r is r; one more PID belongs to an unrelated process
ForeignPid == NumRuns + 1
\* the text of PID_FILE is not a number (empty after truncation, garbage)
NotANumber == 0 - 1
PidFile(e, p) == [exists |-> e, pid |-> p]
NoPidFile == PidFile(FALSE, NotANumber)

LockIdle ==
    /\ pc = [r \in Runs |-> "not_started"]
    /\ pidFile = NoPidFile
    /\ pid = [r \in Runs |-> NotANumber]
    /\ fd_linked = [r \in Runs |-> FALSE]
    /\ effects = [r \in Runs |-> {}]
    /\ sawLive = [r \in Runs |-> FALSE]
    /\ iniExists = FALSE
    /\ foreignAlive = FALSE

FetchIdle ==
    /\ fpc = "idle"
    /\ workshop_ids = <<>>
    /\ BATCH_SIZE = 1
    /\ remote = [id \in Ids |-> 0]
    /\ batch_i = 0
    /\ attempt = 0
    /\ wait = 0
    /\ kind = "none"
    /\ infos = NoData
    /\ requests = 0
    /\ fates = <<>>

RestartIdle ==
    /\ wpc = "idle"
    /\ test_mode = FALSE
    /\ COUNTDOWN_MINUTES = 1
    /\ players = <<>>
    /\ minutes_left = 0
    /\ playersGone = FALSE
    /\ kickIdx = 0
    /\ log = <<>>

\* -------------------------------------------------------- warn_and_restart
InitRestart ==
    /\ wpc = "connect"
    /\ test_mode \in BOOLEAN
    /\ COUNTDOWN_MINUTES \in 1..MaxCountdown
    /\ players = <<>>
    /\ minutes_left = 0
    /\ playersGone = FALSE
    /\ kickIdx = 0
    /\ log = <<>>
    /\ DriftIdle
    /\ LockIdle
    /\ FetchIdle

\* rcon = ZomboidRCON(...); players = get_connected_players(rcon).
\* An exception of the query leaves warn_and_restart through its except.
FirstQuery ==
    /\ wpc = "connect"
    /\ UNCHANGED otherThanRestart
    /\ \/ \E r \in Rosters :
            /\ players' = r
            /\ log' = Append(log, get_connected_players(r, TRUE))
            /\ wpc' = "evaluate"
       \/ /\ log' = Append(log, get_connected_players(<<>>, FALSE))
          /\ wpc' = "done"
          /\ UNCHANGED players
    /\ UNCHANGED <<test_mode, COUNTDOWN_MINUTES, minutes_left, playersGone,
                   kickIdx>>

\* if len(players) == 0 and not test_mode: saveAndQuit(rcon)
QuickStop ==
    /\ wpc = "evaluate"
    /\ UNCHANGED otherThanRestart
    /\ Len(players) = 0 /\ ~test_mode
    /\ log' = saveAndQuit(log)
    /\ wpc' = "done"
    /\ UNCHANGED <<test_mode, COUNTDOWN_MINUTES, players, minutes_left,
                   playersGone, kickIdx>>

\* mutant: the countdown starts one minute short, range(N - 1, 0, -1)
CountdownStart_Short(n) == n - 1

\* the first value of range(COUNTDOWN_MINUTES, 0, -1)
CountdownStart(n) == n

\* else: _playersGone = False; for minutes_left in range(N, 0, -1)
StartCountdown ==
    /\ wpc = "evaluate"
    /\ UNCHANGED otherThanRestart
    /\ ~(Len(players) = 0 /\ ~test_mode)
    /\ playersGone' = FALSE
    /\ minutes_left' = CountdownStart(COUNTDOWN_MINUTES)
    /\ wpc' = IF CountdownStart(COUNTDOWN_MINUTES) > 0 THEN "warn"
                                                        ELSE "after_loop"
    /\ UNCHANGED <<test_mode, COUNTDOWN_MINUTES, players, kickIdx, log>>

\* send_rcon_message(rcon, WARNING_MESSAGE.format(minutes=minutes_left), ..)
Warn ==
    /\ wpc = "warn"
    /\ UNCHANGED otherThanRestart
    /\ \E ok \in BOOLEAN :
          log' = Append(log, WARNING_MESSAGE(minutes_left, test_mode, ok))
    /\ wpc' = "tick_sleep"
    /\ UNCHANGED <<test_mode, COUNTDOWN_MINUTES, players, minutes_left,
                   playersGone, kickIdx>>

\* await asyncio.sleep(60)
TickSleep ==
    /\ wpc = "tick_sleep"
    /\ UNCHANGED otherThanRestart
    /\ log' = Append(log, Sleep(TICK_SECONDS))
    /\ wpc' = "tick_query"
    /\ UNCHANGED <<test_mode, COUNTDOWN_MINUTES, players, minutes_left,
                   playersGone, kickIdx>>

\* players = get_connected_players(rcon); if not players: break; else the
\* next value of the range, or the end of the loop.
TickQuery ==
    /\ wpc = "tick_query"
    /\ UNCHANGED otherThanRestart
    /\ \/ \E r \in Rosters :
            /\ players' = r
            /\ log' = Append(log, get_connected_players(r, TRUE))
            /\ IF Len(r) = 0
                 THEN /\ playersGone' = TRUE
                      /\ wpc' = "after_loop"
                      /\ UNCHANGED minutes_left
                 ELSE /\ UNCHANGED playersGone
                      /\ IF minutes_left - 1 > 0
                           THEN /\ minutes_left' = minutes_left - 1
                                /\ wpc' = "warn"
                           ELSE /\ UNCHANGED minutes_left
                                /\ wpc' = "after_loop"
       \/ /\ log' = Append(log, get_connected_players(<<>>, FALSE))
          /\ wpc' = "done"
          /\ UNCHANGED <<players, minutes_left, playersGone>>
    /\ UNCHANGED <<test_mode, COUNTDOWN_MINUTES, kickIdx>>

\* if not _playersGone: send_rcon_message(RESTART_MESSAGE...); in test mode
\* warn_and_restart ends here.
FinalWarning ==
    /\ wpc = "after_loop"
    /\ UNCHANGED otherThanRestart
    /\ ~playersGone
    /\ \E ok \in BOOLEAN :
          log' = Append(log, RESTART_MESSAGE(RESTART_TIMEOUT * 2, test_mode, ok))
    /\ wpc' = IF test_mode THEN "done" ELSE "final_sleep"
    /\ UNCHANGED <<test_mode, COUNTDOWN_MINUTES, players, minutes_left,
                   playersGone, kickIdx>>

\* mutant: the test-mode guard of the early stop is missing and the
\* coroutine is awaited, so save and quit reach the console in a dry run
EarlyStop_Unguarded ==
    /\ wpc = "after_loop"
    /\ UNCHANGED otherThanRestart
    /\ playersGone
    /\ log' = log \o saveAndQuitBody
    /\ wpc' = "done"
    /\ UNCHANGED <<test_mode, COUNTDOWN_MINUTES, players, minutes_left,
                   playersGone, kickIdx>>

\* elif not test_mode: saveAndQuit(rcon)
EarlyStop ==
    /\ wpc = "after_loop"
    /\ UNCHANGED otherThanRestart
    /\ playersGone
    /\ log' = IF ~test_mode THEN saveAndQuit(log) ELSE log
    /\ wpc' = "done"
    /\ UNCHANGED <<test_mode, COUNTDOWN_MINUTES, players, minutes_left,
                   playersGone, kickIdx>>

\* await asyncio.sleep(RESTART_TIMEOUT*2)
FinalSleep ==
    /\ wpc = "final_sleep"
    /\ UNCHANGED otherThanRestart
    /\ log' = Append(log, Sleep(RESTART_TIMEOUT * 2))
    /\ wpc' = "final_query"
    /\ UNCHANGED <<test_mode, COUNTDOWN_MINUTES, players, minutes_left,
                   playersGone, kickIdx>>

\* players = get_connected_players(rcon); if players: kick_all_players
FinalQuery ==
    /\ wpc = "final_query"
    /\ UNCHANGED otherThanRestart
    /\ \/ \E r \in Rosters :
            /\ players' = r
            /\ log' = Append(log, get_connected_players(r, TRUE))
            /\ IF Len(r) > 0 THEN wpc' = "kick" /\ kickIdx' = 1
                             ELSE wpc' = "stop" /\ UNCHANGED kickIdx
       \/ /\ log' = Append(log, get_connected_players(<<>>, FALSE))
          /\ wpc' = "done"
          /\ UNCHANGED <<players, kickIdx>>
    /\ UNCHANGED <<test_mode, COUNTDOWN_MINUTES, minutes_left, playersGone>>

\* kick_all_players: one kickuser command per player of the list; the try
\* is around the whole loop, so an exception ends the loop.
kick_all_players ==
    /\ wpc = "kick"
    /\ UNCHANGED otherThanRestart
    /\ \E ok \in BOOLEAN :
         /\ log' = Append(log, Event("kickuser", "none", players[kickIdx],
                                     FALSE, ok))
         /\ IF ok /\ kickIdx < Len(players)
              THEN kickIdx' = kickIdx + 1 /\ wpc' = "kick"
              ELSE kickIdx' = kickIdx /\ wpc' = "kick_sleep"
    /\ UNCHANGED <<test_mode, COUNTDOWN_MINUTES, players, minutes_left,
                   playersGone>>

\* await asyncio.sleep(2) after kick_all_players
KickSleep ==
    /\ wpc = "kick_sleep"
    /\ UNCHANGED otherThanRestart
    /\ log' = Append(log, Sleep(KICK_SETTLE))
    /\ wpc' = "stop"
    /\ UNCHANGED <<test_mode, COUNTDOWN_MINUTES, players, minutes_left,
                   playersGone, kickIdx>>

\* logger.info("Saving world and quit."); saveAndQuit(rcon)
FinalStop ==
    /\ wpc = "stop"
    /\ UNCHANGED otherThanRestart
    /\ log' = saveAndQuit(log)
    /\ wpc' = "done"
    /\ UNCHANGED <<test_mode, COUNTDOWN_MINUTES, players, minutes_left,
                   playersGone, kickIdx>>

NextRestart ==
    \/ FirstQuery
    \/ QuickStop
    \/ StartCountdown
    \/ Warn
    \/ TickSleep
    \/ TickQuery
    \/ FinalWarning
    \/ EarlyStop
    \/ FinalSleep
    \/ FinalQuery
    \/ kick_all_players
    \/ KickSleep
    \/ FinalStop

SpecRestart == InitRestart /\ [][NextRestart]_vars

\* ------------------------------------------- properties of warn_and_restart
IsWarning(e) == e.op = "servermsg" /\ e.msg = "warning"
IsFinal(e) == e.op = "servermsg" /\ e.msg = "restart"
Idx(l, P(_)) == { i \in DOMAIN l : P(l[i]) }
IsQuery(e) == e.op = "players"
IsKick(e) == e.op = "kickuser"
IsQuit(e) == e.op = "quit"
AllOk(l) == \A i \in DOMAIN l : l[i].ok
\* the last n entries of l
Tail_n(l, n) == SubSeq(l, Len(l) - n + 1, Len(l))
EndsWithSaveQuit(l) ==
    /\ Len(l) >= Len(saveAndQuitBody)
    /\ Tail_n(l, Len(saveAndQuitBody)) = saveAndQuitBody

\* C1: outside test mode a restart attempt in which no console command
\* failed ends with save, the settle delay of RESTART_TIMEOUT, then quit.
C1_TerminalSequence ==
    (wpc = "done" /\ ~test_mode /\ AllOk(log)) => EndsWithSaveQuit(log)

\* C2: in test mode the quit command is never issued.
C2_NoQuitInTestMode ==
    test_mode => Idx(log, IsQuit) = {}

\* C2 witness: dry runs that ended after the final warning and after the
\* roster emptied during the countdown.
C2_Witness ==
    /\ test_mode /\ wpc = "done" /\ playersGone
    /\ Idx(log, IsWarning) # {}

\* C8: if the final warning was sent, exactly COUNTDOWN_MINUTES warnings
\* precede it, the k-th names N-k+1 minutes and each is followed at once by
\* the 60-second sleep; and an attempt whose every roster query returned
\* players does send the final warning.
C8_Countdown ==
    /\ \A j \in Idx(log, IsFinal) :
          LET W == { i \in Idx(log, IsWarning) : i < j } IN
          /\ Cardinality(W) = COUNTDOWN_MINUTES
          /\ \A i \in W :
                LET k == Cardinality({ h \in W : h <= i }) IN
                /\ log[i].arg = COUNTDOWN_MINUTES - k + 1
                /\ log[i + 1] = Sleep(TICK_SECONDS)
    /\ ( /\ wpc = "done"
         /\ \A i \in Idx(log, IsQuery) : log[i].ok /\ log[i].arg > 0 )
       => Idx(log, IsFinal) # {}

\* C8 witness: a countdown of at least two ticks ran to the final warning
\* with players present at every query.
C8_Witness ==
    /\ COUNTDOWN_MINUTES >= 2
    /\ Idx(log, IsFinal) # {}
    /\ \A i \in Idx(log, IsQuery) : log[i].ok /\ log[i].arg > 0
    /\ wpc = "done"

\* the roster query after tick k < N returned nobody
EmptiedEarly ==
    /\ playersGone
    /\ Cardinality(Idx(log, IsWarning)) < COUNTDOWN_MINUTES

\* C9: when the roster empties at the end of tick k < N there is no further
\* warning, no final warning, no disconnect, and save then stop follow the
\* empty query directly.
C9_EarlyExit ==
    (wpc = "done" /\ EmptiedEarly /\ AllOk(log)) =>
        /\ Idx(log, IsFinal) = {}
        /\ Idx(log, IsKick) = {}
        /\ \E q \in Idx(log, IsQuery) :
              /\ log[q].arg = 0
              /\ SubSeq(log, q + 1, Len(log)) = saveAndQuitBody

\* C10: an empty first roster outside test mode leads to save and stop
\* with no broadcast and no disconnect; every other attempt sends at least
\* one warning.
C10_QuickStopOrCountdown ==
    (wpc = "done" /\ AllOk(log)) =>
        IF log[1].arg = 0 /\ ~test_mode
          THEN log = <<log[1]>> \o saveAndQuitBody
          ELSE Idx(log, IsWarning) # {}

\* kick_all_players has returned (or was never called)
KicksOver == wpc \in {"kick_sleep", "stop", "done"}
\* the players a kickuser command was issued for
Kicked == { log[i].arg : i \in Idx(log, IsKick) }
\* the list `players` as a set
Roster == { players[k] : k \in DOMAIN players }

\* C11: a console command that fails does not end the sequence: a failed
\* warning is still followed by its 60-second sleep, a failed final warning
\* outside test mode by the final sleep, and after a failed kickuser every
\* player of the list still gets a kickuser command.
C11_FailureDoesNotAbort ==
    /\ \A i \in Idx(log, IsWarning) :
          (~log[i].ok /\ i < Len(log)) => log[i + 1] = Sleep(TICK_SECONDS)
    /\ \A i \in Idx(log, IsFinal) :
          (~log[i].ok /\ i < Len(log)) => log[i + 1] = Sleep(RESTART_TIMEOUT * 2)
    /\ (KicksOver /\ \E i \in Idx(log, IsKick) : ~log[i].ok)
          => Roster \subseteq Kicked

\* the final query of an attempt outside test mode whose countdown completed
\* with players present has returned a roster
FinalRosterKnown ==
    /\ ~test_mode /\ ~playersGone
    /\ Idx(log, IsFinal) # {}
    /\ \E q \in Idx(log, IsQuery) :
          /\ log[q].ok
          /\ \A f \in Idx(log, IsFinal) : f < q

\* C18: after the final query of such an attempt, every player of the
\* roster it returned is sent exactly one kickuser command, nobody else is,
\* and no save precedes a kickuser.
C18_FinalRosterDisconnected ==
    /\ (FinalRosterKnown /\ KicksOver) =>
          /\ Kicked = Roster
          /\ Cardinality(Idx(log, IsKick)) = Len(players)
    /\ \A i \in Idx(log, IsKick) :
          /\ log[i].arg \in Roster
          /\ \A j \in 1..(i - 1) : log[j].op # "save"
\* ------------------------------------------------------ are_mods_outdated
\* mutant: a mod whose timestamp equals the recorded one counts as outdated
IsOutdated_OrEqual(item, jd, mod_id) ==
    IF mod_id \in DOMAIN jd
      THEN item.time_updated >= jd[mod_id].time_updated
      ELSE TRUE

\* the body of the loop over modInfo.items(): whether mod_id is appended
IsOutdated(item, jd, mod_id) ==
    IF mod_id \in DOMAIN jd
      THEN item.time_updated > jd[mod_id].time_updated
      ELSE TRUE

RECURSIVE OutdatedLoop(_, _, _)
\* for mod_id, item in modInfo.items(): ... outdated.append(mod_id)
OutdatedLoop(ids, mi, jd) ==
    IF ids = <<>> THEN <<>>
    ELSE (IF IsOutdated(mi[Head(ids)], jd, Head(ids)) THEN <<Head(ids)>>
                                                       ELSE <<>>)
         \o OutdatedLoop(Tail(ids), mi, jd)

\* mutant: only the outdated entries are patched into the old snapshot
SnapshotData_Patch(mi, old, od) ==
    [id \in DOMAIN old \cup { od[i] : i \in DOMAIN od } |->
        IF id \in { od[i] : i \in DOMAIN od }
          THEN SnapshotEntry(mi[id].name, mi[id].time_updated)
          ELSE old[id]]

\* mutant: an id the old snapshot has keeps the timestamp recorded there
SnapshotData_Old(mi, old, od) ==
    [id \in DOMAIN mi |->
        IF id \in DOMAIN old THEN old[id]
        ELSE SnapshotEntry(mi[id].name, mi[id].time_updated)]

\* write_modInfo_timeUpdated_file, the dict `data` it dumps: one entry
\* {name, time_updated} per id of modInfo, nothing of the old file
SnapshotData(mi, old, od) ==
    [id \in DOMAIN mi |-> SnapshotEntry(mi[id].name, mi[id].time_updated)]

\* The outcomes of open(file_path, 'w') and json.dump: written; open raised
\* (file untouched); json.dump raised after the file was truncated; the
\* process died after the file was truncated.
WriteOutcomes == { "ok", "open_error", "dump_error", "killed" }

\* mutant: the file is never written
write_modInfo_timeUpdated_file_Skipped(data, file, outcome) == file

\* the file after write_modInfo_timeUpdated_file with that outcome
write_modInfo_timeUpdated_file(data, file, outcome) ==
    CASE outcome = "ok" -> File("ok", data)
      [] outcome = "open_error" -> file
      [] OTHER -> File("corrupt", NoData)

InitDrift ==
    /\ dpc = "ready"
    /\ modInfo \in FreshMappings
    /\ snapshot \in SnapshotFiles
    /\ json_data = File("missing", NoData)
    /\ outdated = <<>>
    /\ result = FALSE
    /\ write_error = "none"
    /\ prev = NoPrev
    /\ RestartIdle
    /\ LockIdle
    /\ FetchIdle

\* One call of are_mods_outdated(modInfo, LOCAL_MODINFO_FILE): read the
\* file (an unreadable file returns False), run the loop, rewrite the file
\* when the list is not empty, return len(outdated) > 0.
are_mods_outdated ==
    /\ dpc = "ready"
    /\ UNCHANGED otherThanDrift
    /\ json_data' = snapshot
    /\ UNCHANGED <<modInfo, prev>>
    /\ IF snapshot.state # "ok"
         THEN /\ outdated' = <<>>
              /\ result' = FALSE
              /\ write_error' = "none"
              /\ dpc' = "returned"
              /\ UNCHANGED snapshot
         ELSE LET od == OutdatedLoop(SortedSeq(DOMAIN modInfo), modInfo,
                                     snapshot.data)
              IN /\ outdated' = od
                 /\ IF Len(od) > 0
                      THEN \E o \in WriteOutcomes :
                             /\ snapshot' = write_modInfo_timeUpdated_file(
                                   SnapshotData(modInfo, snapshot.data, od),
                                   snapshot, o)
                             /\ write_error' = (IF o = "ok" THEN "none" ELSE o)
                             /\ dpc' = IF o = "killed" THEN "crashed"
                                                       ELSE "returned"
                             /\ result' = (o # "killed")
                      ELSE /\ UNCHANGED snapshot
                           /\ write_error' = "none"
                           /\ dpc' = "returned"
                           /\ result' = FALSE

\* the start of a call: its locals fresh, the file as it was left
NewCall ==
    /\ dpc' = "ready"
    /\ json_data' = File("missing", NoData)
    /\ outdated' = <<>>
    /\ result' = FALSE
    /\ write_error' = "none"
    /\ UNCHANGED snapshot

\* the start of a call that repeats the previous one: the same fresh
\* mapping, and the history of the call it repeats
SameCall ==
    /\ NewCall
    /\ UNCHANGED modInfo
    /\ prev' = Call(TRUE, dpc # "crashed", result, write_error, test_mode)

\* The next run of the program: a new fetch result, the file as it was left.
NextRun ==
    /\ dpc \in {"returned", "crashed"}
    /\ UNCHANGED otherThanDrift
    /\ \E mi \in FreshMappings : modInfo' = mi
    /\ prev' = NoPrev
    /\ NewCall

\* are_mods_outdated invoked again at once with the same fresh mapping
CallAgain ==
    /\ dpc = "returned"
    /\ UNCHANGED otherThanDrift
    /\ SameCall

NextDrift ==
    \/ are_mods_outdated
    \/ NextRun
    \/ CallAgain

SpecDrift == InitDrift /\ [][NextDrift]_vars

\* ------------------------------------------ properties of are_mods_outdated
\* C3: with a readable snapshot, are_mods_outdated returns true exactly when
\* some id of the fresh mapping is absent from the snapshot or has a
\* time_updated strictly greater than the recorded one.
C3_DriftIff ==
    (dpc = "returned" /\ json_data.state = "ok") =>
        (result <=>
            \E id \in DOMAIN modInfo :
                \/ id \notin DOMAIN json_data.data
                \/ modInfo[id].time_updated > json_data.data[id].time_updated)

\* C3 witness: drift reported for a recorded id whose timestamp grew, and
\* no drift reported where fresh mapping and snapshot agree.
C3_Witness ==
    /\ dpc = "returned" /\ json_data.state = "ok" /\ result
    /\ DOMAIN modInfo = DOMAIN json_data.data
    /\ DOMAIN modInfo # {}

\* the fresh mapping projected to (id, name, time_updated)
Projected(mi) ==
    [id \in DOMAIN mi |-> [name |-> mi[id].name,
                           time_updated |-> mi[id].time_updated]]

C15_AtomicWrite ==
    dpc = "crashed" =>
        \/ snapshot = json_data
        \/ snapshot = File("ok", Projected(modInfo))

\* C16: the ids the snapshot held when a call read it (the ids observed by
\* earlier runs) are still in the snapshot after the call, so that a
\* recorded id can only be reported by the strictly-greater test.
C16_ObservedStays ==
    ( /\ dpc = "returned"
      /\ json_data.state = "ok" /\ snapshot.state = "ok" )
    => DOMAIN json_data.data \subseteq DOMAIN snapshot.data

\* ----------------------------------------------------- check_mods_and_handle
\* A run of main in test mode or regular mode with server.ini present, and
\* the runs that follow it while create_modInfo delivers the same modInfo:
\* check_mods_and_handle calls are_mods_outdated and, on true,
\* warn_and_restart.  warn_and_restart itself is SpecRestart, which starts
\* in the state check_mods_and_handle leaves (wpc = "connect", empty log);
\* all console commands of these runs are issued there.
InitMain ==
    /\ dpc = "ready"
    /\ modInfo \in FreshMappings
    /\ snapshot \in SnapshotFiles
    /\ json_data = File("missing", NoData)
    /\ outdated = <<>>
    /\ result = FALSE
    /\ write_error = "none"
    /\ prev = NoPrev
    /\ wpc = "idle"
    /\ test_mode \in BOOLEAN
    /\ COUNTDOWN_MINUTES = 1
    /\ players = <<>>
    /\ minutes_left = 0
    /\ playersGone = FALSE
    /\ kickIdx = 0
    /\ log = <<>>
    /\ LockIdle
    /\ FetchIdle

\* mutant: warn_and_restart is called whatever are_mods_outdated returned
check_mods_and_handle_Always ==
    /\ dpc = "returned"
    /\ dpc' = "handled"
    /\ wpc' = "connect"
    /\ UNCHANGED <<modInfo, snapshot, json_data, outdated, result,
                   write_error, prev>>
    /\ UNCHANGED <<test_mode, COUNTDOWN_MINUTES, players, minutes_left,
                   playersGone, kickIdx, log>>
    /\ UNCHANGED <<lockVars, fetchVars>>

\* if await are_mods_outdated(modInfo, LOCAL_MODINFO_FILE):
\*     await warn_and_restart(test_mode)
check_mods_and_handle ==
    /\ dpc = "returned"
    /\ dpc' = "handled"
    /\ wpc' = IF result THEN "connect" ELSE wpc
    /\ UNCHANGED <<modInfo, snapshot, json_data, outdated, result,
                   write_error, prev>>
    /\ UNCHANGED <<test_mode, COUNTDOWN_MINUTES, players, minutes_left,
                   playersGone, kickIdx, log>>
    /\ UNCHANGED <<lockVars, fetchVars>>

\* The next run of main, started after the previous one ended (after
\* check_mods_and_handle, or after the process died in the write): test or
\* regular mode, the remote data unchanged, the file as it was left.
main ==
    /\ dpc \in {"handled", "crashed"}
    /\ SameCall
    /\ test_mode' \in BOOLEAN
    /\ wpc' = "idle"
    /\ UNCHANGED <<COUNTDOWN_MINUTES, players, minutes_left, playersGone,
                   kickIdx, log>>
    /\ UNCHANGED <<lockVars, fetchVars>>

NextMain ==
    \/ are_mods_outdated
    \/ check_mods_and_handle
    \/ main

SpecMain == InitMain /\ [][NextMain]_vars

\* warn_and_restart has not been called in this run: no console command
NoConsoleCommand == wpc = "idle" /\ log = <<>>

\* C13: a call that could not read the snapshot returns false with an empty
\* list, leaves the file as it found it, and the run issues no console
\* command.
C13_UnreadableSnapshot ==
    (dpc \in {"returned", "handled"} /\ json_data.state # "ok") =>
        /\ ~result /\ outdated = <<>> /\ write_error = "none"
        /\ snapshot = json_data
        /\ NoConsoleCommand

\* C13 witness: a run with a non-empty fresh mapping and a corrupt snapshot
\* has passed check_mods_and_handle.
C13_Witness ==
    /\ dpc = "handled" /\ json_data.state = "corrupt"
    /\ DOMAIN modInfo # {}

\* C20: a run that follows a run whose are_mods_outdated returned true and
\* wrote the snapshot, and that gets the same fresh mapping, detects no
\* drift and issues no console command, whichever mode the first run had.
C20_CommittedBeforeRestart ==
    ( /\ dpc \in {"returned", "handled"}
      /\ prev.called /\ prev.returned
      /\ prev.result /\ prev.write_error = "none" )
    => (~result /\ NoConsoleCommand)

\* C20 witness: the first run was a dry run that reported drift; the second
\* run, in regular mode with the same mapping, has passed
\* check_mods_and_handle.
C20_Witness ==
    /\ dpc = "handled" /\ ~test_mode
    /\ prev.called /\ prev.returned /\ prev.test
    /\ prev.result /\ prev.write_error = "none"
    /\ DOMAIN modInfo # {}
\* ------------------------------------------- main, check_pid, remove_pid
\* os.path.exists(f'/proc/{pid}'): a run is a process from its start to its
\* end; the PID of a left-over file may belong to an unrelated process
Ended ==
    {"exited", "exit_already_running", "exit_pid_error", "exit_usage",
     "killed"}
Alive(p) ==
    \/ p \in Runs /\ pc[p] \notin {"not_started"} \cup Ended
    \/ p = ForeignPid /\ foreignAlive

set(f, r, v) == [f EXCEPT ![r] = v]

InitLock ==
    /\ pc = [r \in Runs |-> "not_started"]
    /\ pidFile \in { NoPidFile, PidFile(TRUE, ForeignPid),
                     PidFile(TRUE, NotANumber) }
    /\ pid = [r \in Runs |-> NotANumber]
    /\ fd_linked = [r \in Runs |-> FALSE]
    /\ effects = [r \in Runs |-> {}]
    /\ sawLive = [r \in Runs |-> FALSE]
    /\ iniExists \in BOOLEAN
    /\ foreignAlive \in BOOLEAN
    /\ RestartIdle
    /\ DriftIdle
    /\ FetchIdle

\* The run starts; check_pid: if os.path.exists(PID_FILE)
check_pid_exists(r) ==
    /\ pc[r] = "not_started"
    /\ pc' = set(pc, r, IF pidFile.exists THEN "cp_read" ELSE "cp_open")
    /\ UNCHANGED <<pidFile, pid, fd_linked, effects, sawLive, iniExists,
                   foreignAlive>>
    /\ UNCHANGED otherThanLock

\* with open(PID_FILE, 'r') as f: pid = int(f.read().strip()); a file that
\* is gone by now or holds no number raises, which `except Exception` logs
check_pid_read(r) ==
    /\ pc[r] = "cp_read"
    /\ IF pidFile.exists /\ pidFile.pid # NotANumber
         THEN pid' = set(pid, r, pidFile.pid) /\ pc' = set(pc, r, "cp_proc")
         ELSE UNCHANGED pid /\ pc' = set(pc, r, "cp_open")
    /\ UNCHANGED <<pidFile, fd_linked, effects, sawLive, iniExists,
                   foreignAlive>>
    /\ UNCHANGED otherThanLock

\* mutant: the branch of a live PID falls through instead of exiting
check_pid_alive_NoExit(r) ==
    /\ pc[r] = "cp_proc"
    /\ sawLive' = set(sawLive, r, Alive(pid[r]))
    /\ pid' = set(pid, r, NotANumber)
    /\ pc' = set(pc, r, "cp_open")
    /\ UNCHANGED <<pidFile, fd_linked, effects, iniExists, foreignAlive>>
    /\ UNCHANGED otherThanLock

\* if os.path.exists(f'/proc/{pid}'): sys.exit(0); else the file is stale.
\* The local pid is not used after this test.
check_pid_alive(r) ==
    /\ pc[r] = "cp_proc"
    /\ sawLive' = set(sawLive, r, Alive(pid[r]))
    /\ pid' = set(pid, r, NotANumber)
    /\ pc' = set(pc, r, IF Alive(pid[r]) THEN "exit_already_running"
                                           ELSE "cp_open")
    /\ UNCHANGED <<pidFile, fd_linked, effects, iniExists, foreignAlive>>
    /\ UNCHANGED otherThanLock

\* with open(PID_FILE, 'w') as f: the file is created or truncated; when the
\* open raises, check_pid logs and calls sys.exit(1)
check_pid_open(r) ==
    /\ pc[r] = "cp_open"
    /\ \/ /\ pidFile' = PidFile(TRUE, NotANumber)
          /\ fd_linked' = set(fd_linked, r, TRUE)
          /\ pc' = set(pc, r, "cp_write")
       \/ /\ pc' = set(pc, r, "exit_pid_error")
          /\ UNCHANGED <<pidFile, fd_linked>>
    /\ UNCHANGED <<pid, effects, sawLive, iniExists, foreignAlive>>
    /\ UNCHANGED otherThanLock

\* f.write(str(os.getpid())) and the close: the text lands in the file the
\* handle is open on, which is PID_FILE unless that was removed meanwhile
check_pid_write(r) ==
    /\ pc[r] = "cp_write"
    /\ pidFile' = IF fd_linked[r] THEN PidFile(TRUE, r) ELSE pidFile
    /\ fd_linked' = set(fd_linked, r, FALSE)
    /\ pc' = set(pc, r, "parse_args")
    /\ UNCHANGED <<pid, effects, sawLive, iniExists, foreignAlive>>
    /\ UNCHANGED otherThanLock

Modes == {"msg", "get_serverini", "test", "regular"}

\* The first statement of the branch main takes for the parsed arguments;
\* the regular mode downloads server.ini first when it is not there.
Branch(m, ini) ==
    CASE m = "msg" -> "msg"
      [] m = "get_serverini" -> "gs_sftp"
      [] m = "test" -> "fetch"
      [] OTHER -> IF ini THEN "fetch" ELSE "boot_sftp"

\* parser.parse_args() and the branch main takes inside its try.  argparse
\* ends the process itself (--help, an unknown option): that SystemExit is
\* raised before the try, so no finally runs.
parse_args(r) ==
    /\ pc[r] = "parse_args"
    /\ \/ pc' = set(pc, r, "exit_usage")
       \/ \E m \in Modes : pc' = set(pc, r, Branch(m, iniExists))
    /\ UNCHANGED <<pidFile, pid, fd_linked, effects, sawLive, iniExists,
                   foreignAlive>>
    /\ UNCHANGED otherThanLock

\* asyncio.run(send_manual_message(args.msg)): the name ZomboidRCONient is
\* not defined, the NameError leaves main through the finally
main_msg(r) ==
    /\ pc[r] = "msg"
    /\ pc' = set(pc, r, "finally")
    /\ UNCHANGED <<pidFile, pid, fd_linked, effects, sawLive, iniExists,
                   foreignAlive>>
    /\ UNCHANGED otherThanLock

\* sftp_download(SFTP_REMOTE_FILE, LOCAL_SERVER_INI): a file transfer over
\* the network, which may fail (logged, False returned and ignored)
main_sftp_download(r) ==
    /\ pc[r] \in {"gs_sftp", "boot_sftp"}
    /\ effects' = set(effects, r, effects[r] \cup {"transfer"})
    /\ \E ok \in BOOLEAN : iniExists' = (iniExists \/ ok)
    /\ pc' = set(pc, r, IF pc[r] = "gs_sftp" THEN "gs_fetch" ELSE "boot_fetch")
    /\ UNCHANGED <<pidFile, pid, fd_linked, sawLive, foreignAlive>>
    /\ UNCHANGED otherThanLock

\* read_enabled_mods and create_modInfo: no server.ini or no WorkshopItems
\* gives no ids and no request; otherwise the catalog service is queried
main_create_modInfo(r) ==
    /\ pc[r] \in {"fetch", "gs_fetch", "boot_fetch"}
    /\ \E ids \in BOOLEAN :
         /\ ids => iniExists
         /\ effects' = set(effects, r,
                           effects[r] \cup (IF ids THEN {"catalog"} ELSE {}))
    /\ pc' = set(pc, r,
          CASE pc[r] = "boot_fetch" -> "boot_write"
            [] pc[r] = "gs_fetch" -> "gs_write"
            [] OTHER -> "check")
    /\ UNCHANGED <<pidFile, pid, fd_linked, sawLive, iniExists, foreignAlive>>
    /\ UNCHANGED otherThanLock

\* write_modInfo_timeUpdated_file(modInfo, LOCAL_MODINFO_FILE) called by
\* main (after write_discord_modlist in the get_serverini mode)
main_write_modInfo(r) ==
    /\ pc[r] \in {"gs_write", "boot_write"}
    /\ effects' = set(effects, r, effects[r] \cup {"snapshot"})
    /\ pc' = set(pc, r, IF pc[r] = "gs_write" THEN "finally" ELSE "check")
    /\ UNCHANGED <<pidFile, pid, fd_linked, sawLive, iniExists, foreignAlive>>
    /\ UNCHANGED otherThanLock

\* asyncio.run(check_mods_and_handle(modInfo, ..)): drift can be found only
\* for a mapping the catalog returned; the snapshot is then rewritten and
\* warn_and_restart sends console commands
main_check_mods_and_handle(r) ==
    /\ pc[r] = "check"
    /\ \E drift \in BOOLEAN :
         /\ drift => "catalog" \in effects[r]
         /\ effects' = set(effects, r,
               effects[r] \cup (IF drift THEN {"snapshot", "rcon"} ELSE {}))
    /\ pc' = set(pc, r, "finally")
    /\ UNCHANGED <<pidFile, pid, fd_linked, sawLive, iniExists, foreignAlive>>
    /\ UNCHANGED otherThanLock

\* the statements of main inside its try
InTry(r) ==
    pc[r] \in {"msg", "gs_sftp", "gs_fetch", "gs_write", "boot_sftp",
               "boot_fetch", "boot_write", "fetch", "check"}

\* except KeyboardInterrupt: logger.info("Script interrupted.")
KeyboardInterrupt(r) ==
    /\ InTry(r)
    /\ pc' = set(pc, r, "finally")
    /\ UNCHANGED <<pidFile, pid, fd_linked, effects, sawLive, iniExists,
                   foreignAlive>>
    /\ UNCHANGED otherThanLock

\* finally: remove_pid(): if os.path.exists(PID_FILE): os.remove(PID_FILE),
\* whatever PID the file holds; then the process ends
remove_pid(r) ==
    /\ pc[r] = "finally"
    /\ pidFile' = NoPidFile
    /\ fd_linked' = [q \in Runs |-> IF pidFile.exists THEN FALSE
                                                      ELSE fd_linked[q]]
    /\ pc' = set(pc, r, "exited")
    /\ UNCHANGED <<pid, effects, sawLive, iniExists, foreignAlive>>
    /\ UNCHANGED otherThanLock

\* The process is ended from outside: SIGTERM or SIGKILL at any point (no
\* handler is installed), or Ctrl-C while it is in check_pid or parse_args,
\* before the try.  Nothing of main runs afterwards.
Terminated(r) ==
    /\ pc[r] \notin {"not_started"} \cup Ended
    /\ pc' = set(pc, r, "killed")
    /\ pid' = set(pid, r, NotANumber)
    /\ fd_linked' = set(fd_linked, r, FALSE)
    /\ UNCHANGED <<pidFile, effects, sawLive, iniExists, foreignAlive>>
    /\ UNCHANGED otherThanLock

NextLock ==
    \E r \in Runs :
        \/ check_pid_exists(r)
        \/ check_pid_read(r)
        \/ check_pid_alive(r)
        \/ check_pid_open(r)
        \/ check_pid_write(r)
        \/ parse_args(r)
        \/ main_msg(r)
        \/ main_sftp_download(r)
        \/ main_create_modInfo(r)
        \/ main_write_modInfo(r)
        \/ main_check_mods_and_handle(r)
        \/ KeyboardInterrupt(r)
        \/ remove_pid(r)
        \/ Terminated(r)

SpecLock == InitLock /\ [][NextLock]_vars

\* --------------------------------------------------- properties of the lock
\* run r is past check_pid and executing the work of main
InWork(r) ==
    pc[r] \in {"gs_sftp", "gs_fetch", "gs_write", "boot_sftp", "boot_fetch",
               "boot_write", "fetch", "check"}

\* C5: at most one run at a time is past the lock check and executing fetch,
\* drift detection or restart orchestration.
C5_MutualExclusion ==
    \A r1, r2 \in Runs : (InWork(r1) /\ InWork(r2)) => r1 = r2

\* C6: a run whose check finds the PID of the lock marker alive has exited,
\* with no network call, no console command and no write of the snapshot.
C6_LockedOutDoesNothing ==
    \A r \in Runs :
        sawLive[r] => (pc[r] = "exit_already_running" /\ effects[r] = {})

\* C6 witness: a run was locked out by another run that is at work.
C6_Witness ==
    \E r, h \in Runs :
        /\ sawLive[r] /\ pc[r] = "exit_already_running"
        /\ InWork(h) /\ pidFile = PidFile(TRUE, h)

\* C7: a run that wrote its PID to the lock marker has removed the marker
\* when it ends: the marker never names a run that has ended.
C7_LockReleasedOnExit ==
    \A r \in Runs : pc[r] \in Ended => pidFile # PidFile(TRUE, r)

\* ------------------------------- create_modInfo, fetch_workshop_details
Min(a, b) == IF a <= b THEN a ELSE b

RECURSIVE Pow2(_)
\* 2 ** n
Pow2(n) == IF n = 0 THEN 1 ELSE 2 * Pow2(n - 1)

\* what can become of one requests.get: RequestException; status 429; a
\* status or body that raise_for_status / response.json reject; a usable
\* answer; an answer that parses but whose shape makes the loop over
\* publishedfiledetails raise
Failures == {"network", "rate_limit", "bad_response"}
Outcomes == Failures \cup {"ok", "unusable"}

\* the cap of the wait for that kind of failure
Cap(k) == IF k = "rate_limit" THEN CAP_RATE_LIMIT ELSE CAP_ERROR

\* mutant: the exponent counts the failed attempts from one
Backoff_FromTwo(a, k) == Min(Pow2(a + 1), Cap(k))

\* wait = min(2 ** attempt, 30) and, for 429, min(2 ** attempt, 60)
Backoff(a, k) == Min(Pow2(a), Cap(k))

\* batch_ids = workshop_ids[i:i + BATCH_SIZE]
Batch(ids, start, size) ==
    SubSeq(ids, start + 1, Min(start + size, Len(ids)))

\* results[mod_id] = {...} for the ids of the batch
Details(batch, rem) ==
    [id \in { batch[k] : k \in DOMAIN batch } |-> ModRecord(rem[id])]

\* infos.update(data)
Update(old, new) ==
    [id \in DOMAIN old \cup DOMAIN new |->
        IF id \in DOMAIN new THEN new[id] ELSE old[id]]

\* the configurations explored: any list of enabled ids (ascending), any
\* batch size up to their number, any remote timestamps
InitFetchPart ==
    /\ fpc = "loop"
    /\ workshop_ids \in { SortedSeq(S) : S \in SUBSET Ids }
    /\ BATCH_SIZE \in 1..MaxIds
    /\ remote \in [Ids -> Times]
    /\ batch_i = 0
    /\ attempt = 0
    /\ wait = 0
    /\ kind = "none"
    /\ infos = NoData
    /\ requests = 0
    /\ fates = <<>>

InitFetch ==
    /\ InitFetchPart
    /\ RestartIdle
    /\ DriftIdle
    /\ LockIdle

\* create_modInfo, the head of `for i in range(0, len(workshop_ids),
\* BATCH_SIZE)`: call fetch_workshop_details on the next batch, or return
\* infos.  fetch_workshop_details splits its argument at 100 ids, more than
\* the ids explored, so each call makes one batch of it.
create_modInfo ==
    /\ fpc = "loop"
    /\ UNCHANGED otherThanFetch
    /\ IF batch_i < Len(workshop_ids)
         THEN /\ fpc' = "request"
              /\ attempt' = 0
              /\ requests' = 0
         ELSE /\ fpc' = "done"
              /\ UNCHANGED <<attempt, requests>>
    /\ UNCHANGED <<workshop_ids, BATCH_SIZE, remote, batch_i, wait, kind,
                   infos, fates>>

\* mutant: an abandoned batch makes create_modInfo give up and return
\* nothing
GiveUp_All(old) == NoData

\* `continue` of the for-else: the results so far are kept
GiveUp(old) == old

\* One pass of `for attempt in range(5)`: requests.get and what follows.
\* A failure computes `wait`; a usable answer adds the records of the batch
\* and the call returns them to create_modInfo, which merges them into
\* infos; an unusable one raises into the outer except, the call returns {}
\* and create_modInfo goes on with the next batch.
fetch_workshop_details ==
    /\ fpc = "request"
    /\ UNCHANGED otherThanFetch
    /\ requests' = requests + 1
    /\ \E o \in Outcomes :
         CASE o \in Failures ->
                /\ kind' = o
                /\ wait' = Backoff(attempt, o)
                /\ fpc' = "sleep"
                /\ UNCHANGED <<batch_i, infos, fates>>
           [] o = "ok" ->
                /\ infos' = Update(infos,
                                   Details(Batch(workshop_ids, batch_i,
                                                 BATCH_SIZE), remote))
                /\ fates' = Append(fates, "ok")
                /\ batch_i' = batch_i + BATCH_SIZE
                /\ fpc' = "loop"
                /\ UNCHANGED <<kind, wait>>
           [] OTHER ->
                /\ fates' = Append(fates, "unusable")
                /\ batch_i' = batch_i + BATCH_SIZE
                /\ fpc' = "loop"
                /\ UNCHANGED <<kind, wait, infos>>
    /\ UNCHANGED <<workshop_ids, BATCH_SIZE, remote, attempt>>

\* time.sleep(wait); continue: the next attempt, or after the last one the
\* else of the loop: "Max retries for batch reached." and the batch is
\* left out.
sleep_and_retry ==
    /\ fpc = "sleep"
    /\ UNCHANGED otherThanFetch
    /\ wait' = 0
    /\ kind' = "none"
    /\ IF attempt + 1 < MAX_ATTEMPTS
         THEN /\ attempt' = attempt + 1
              /\ fpc' = "request"
              /\ UNCHANGED <<batch_i, infos, fates>>
         ELSE /\ infos' = GiveUp(infos)
              /\ fates' = Append(fates, "abandoned")
              /\ batch_i' = batch_i + BATCH_SIZE
              /\ fpc' = "loop"
              /\ UNCHANGED attempt
    /\ UNCHANGED <<workshop_ids, BATCH_SIZE, remote, requests>>

NextFetch ==
    \/ create_modInfo
    \/ fetch_workshop_details
    \/ sleep_and_retry

SpecFetch == InitFetch /\ [][NextFetch]_vars

\* the same with progress: the program keeps running until it returns
SpecFetchFair == SpecFetch /\ WF_vars(NextFetch)

\* ----------------------------------------------- properties of the fetch
Last(q) == q[Len(q)]
\* the number of batches of n ids
NumBatches(n, size) == (n + size - 1) \div size
\* the ids of the batches that ended with a usable answer
Resolved ==
    UNION { { Batch(workshop_ids, (b - 1) * BATCH_SIZE, BATCH_SIZE)[k]
                : k \in 1..Len(Batch(workshop_ids, (b - 1) * BATCH_SIZE,
                                     BATCH_SIZE)) }
            : b \in { c \in DOMAIN fates : fates[c] = "ok" } }

\* what holds in every state of the fetch: no batch gets more than 5
\* requests; a batch is abandoned only after 5 requests, all failed; infos
\* holds exactly the records of the batches that succeeded, whatever
\* happened to the batches before and after them; and when create_modInfo
\* returns every batch has been attempted.
FetchInv ==
    /\ requests <= MAX_ATTEMPTS
    /\ (fpc \in {"loop", "done"} /\ fates # <<>> /\ Last(fates) = "abandoned")
          => requests = MAX_ATTEMPTS
    /\ DOMAIN infos = Resolved
    /\ \A id \in DOMAIN infos : infos[id] = ModRecord(remote[id])
    /\ fpc = "done" => Len(fates) = NumBatches(Len(workshop_ids), BATCH_SIZE)

\* C17: FetchInv always holds, and the fetch returns whatever the pattern of
\* failures.
C17_BatchAbandonedAlone == []FetchInv /\ <>(fpc = "done")

\* C17 witness: the first batch succeeded, the second was abandoned after 5
\* failed requests, and create_modInfo returned the records of the first.
C17_Witness ==
    /\ fpc = "done" /\ fates = <<"ok", "abandoned">>
    /\ requests = MAX_ATTEMPTS
    /\ DOMAIN infos = {workshop_ids[1]}

\* C19 as claimed: the wait after the k-th failed attempt of a batch is 2s
\* doubled k-1 times, cut at 30s (60s for status 429).
C19_BackoffFromTwo ==
    fpc = "sleep" => wait = Min(2 * Pow2(requests - 1), Cap(kind))

\* C19 amended: the wait after the k-th failed attempt is 1s doubled k-1
\* times, that is 1, 2, 4, 8, 16 seconds, which is below both caps.
C19_BackoffFromOne ==
    fpc = "sleep" =>
        /\ wait = CASE requests = 1 -> 1
                    [] requests = 2 -> 2
                    [] requests = 3 -> 4
                    [] requests = 4 -> 8
                    [] requests = 5 -> 16
        /\ wait <= (IF kind = "rate_limit" THEN 60 ELSE 30)

\* C19 witness: the wait after the fifth failure, a status 429
C19_Witness ==
    /\ fpc = "sleep" /\ requests = MAX_ATTEMPTS /\ kind = "rate_limit"
    /\ wait = 16

\* ------------------------------------------------------- one run of main
\* One run in test mode or regular mode with server.ini present, from
\* create_modInfo to the end of warn_and_restart: every listed id enabled,
\* a countdown of one minute.
InitRun ==
    /\ InitFetchPart
    /\ workshop_ids = SortedSeq(Ids)
    /\ dpc = "idle"
    /\ modInfo = NoData
    /\ snapshot \in SnapshotFiles
    /\ json_data = File("missing", NoData)
    /\ outdated = <<>>
    /\ result = FALSE
    /\ write_error = "none"
    /\ prev = NoPrev
    /\ wpc = "idle"
    /\ test_mode \in BOOLEAN
    /\ COUNTDOWN_MINUTES = 1
    /\ players = <<>>
    /\ minutes_left = 0
    /\ playersGone = FALSE
    /\ kickIdx = 0
    /\ log = <<>>
    /\ LockIdle

\* modInfo = create_modInfo(enabled_workshop_ids), followed by the call
\* check_mods_and_handle(modInfo, ...): the locals of the fetch are gone,
\* what it returned is modInfo.
main_modInfo ==
    /\ fpc = "done" /\ dpc = "idle"
    /\ modInfo' = infos
    /\ dpc' = "ready"
    /\ fpc' = "idle"
    /\ infos' = NoData
    /\ batch_i' = 0
    /\ attempt' = 0
    /\ requests' = 0
    /\ UNCHANGED <<workshop_ids, BATCH_SIZE, remote, wait, kind, fates>>
    /\ UNCHANGED <<snapshot, json_data, outdated, result, write_error, prev>>
    /\ UNCHANGED <<restartVars, lockVars>>

NextRunOfMain ==
    \/ create_modInfo
    \/ fetch_workshop_details
    \/ sleep_and_retry
    \/ main_modInfo
    \/ are_mods_outdated
    \/ check_mods_and_handle
    \/ FirstQuery
    \/ QuickStop
    \/ StartCountdown
    \/ Warn
    \/ TickSleep
    \/ TickQuery
    \/ FinalWarning
    \/ EarlyStop
    \/ FinalSleep
    \/ FinalQuery
    \/ kick_all_players
    \/ KickSleep
    \/ FinalStop

SpecRun == InitRun /\ [][NextRunOfMain]_vars

\* a batch exhausted its retries in this run
FetchFailed == \E b \in DOMAIN fates : fates[b] = "abandoned"
\* the commands that reach the players or stop the server
PlayerFacing == {"servermsg", "kickuser", "save", "quit"}

\* C12: a run in which a batch exhausted its retries issues no broadcast,
\* no disconnect, no save and no stop.
C12_FetchFailureAborts ==
    FetchFailed => \A k \in DOMAIN log : log[k].op \notin PlayerFacing
====
